---- MODULE Spec2Model ----
(***************************************************************************)
(* fixtures-ts: createFixtures(registry, requested) and its setup /        *)
(* teardown lifecycle, with the dependency graph builder (loadDeps) and    *)
(* the topological sorter (sortFixtures) it relies on.                     *)
(*                                                                         *)
(* One instance of createFixtures is modelled.  The registry and the       *)
(* requested list are the instance's inputs, drawn in Init.  Every await   *)
(* of a fixture's setup or cleanup is one step of the model: the fixture's *)
(* operation is invoked and settles (resolves or rejects) in that step,    *)
(* and the orchestrator's code up to the next await runs with it.          *)
(***************************************************************************)
EXTENDS Naturals, Sequences, FiniteSets

\* ------------------------------------------------------------------ bounds

\* The universe of fixture names.
Names == {"a", "b", "c"}

\* Dependencies declared in a registry, all fixtures together.
MaxEdges == 2

\* Longest requested list.
MaxReq == 2

\* Lifecycle calls (setup / teardown) made on the instance.
MaxCalls == 3

\* ----------------------------------------------------------------- helpers

SeqUpTo(S, n) == UNION {[1..k -> S] : k \in 0..n}

Range(s) == {s[k] : k \in 1..Len(s)}

Reverse(s) == [k \in 1..Len(s) |-> s[Len(s) + 1 - k]]

NoName == "-"

\* What a call settles with: resolved, or rejected with an Error.
Ok == [kind |-> "ok", name |-> NoName]

\* new Error(`Fixture not found: ${name}`)
MissingFixture(n) == [kind |-> "MissingFixture", name |-> n]

\* new Error(`Circular dependency detected: ${name}`)
CircularDependency(n) == [kind |-> "CircularDependency", name |-> n]

\* The error a fixture's own setup operation rejects with.
SetupFailure(n) == [kind |-> "SetupFailure", name |-> n]

\* The error a fixture's own cleanup operation rejects with.
CleanupFailure(n) == [kind |-> "CleanupFailure", name |-> n]

\* ------------------------------------------------------------------- state

VARIABLES
    registry,     \* registered name -> its declared dependency list
    requested,    \* the requested list given to createFixtures
    deps,         \* state.deps: [isNull, vals]
    cleanups,     \* state.cleanups: sequence of cleanup handles
    pc,           \* "idle", or the loop a pending call is suspended in
    sorted,       \* setup's local: the sorted names
    values,       \* setup's local: the values produced so far
    idx,          \* position of the running loop
    pending,      \* rollback's local: [...state.cleanups].reverse()
    error,        \* rollback's local: the error caught
    calls,        \* lifecycle calls made so far
    last,         \* the latest settled call: [op, ok]
    prev,         \* the settled call before it: [op, ok]
    lastResult,   \* what the latest settled call settled with
    setupLog,     \* fixture setups invoked by the latest setup pass
    cleanupLog,   \* cleanup handles invoked by the latest call
    firstFailure, \* the first cleanup that rejected in the latest call
    snapshot,     \* state.cleanups as the latest call found it
    got,          \* what get() gave, called since the latest call settled
    lastArg,      \* the latest fixture setup invoked in this call: [name, vals]
    stack,        \* call stack of the graph build or sort, step by step
    graph,        \* the graph build's dependencies map and toLoad set
    marks         \* the sort's sorted, visited and visiting

vars == <<registry, requested, deps, cleanups, pc, sorted, values, idx,
          pending, error, calls, last, prev, lastResult, setupLog,
          cleanupLog, firstFailure, snapshot, got, lastArg,
          stack, graph, marks>>

\* The variables of the step-by-step graph build and sort.
tvars == <<stack, graph, marks>>

\* ------------------------------------------------- Set / Map of JavaScript

\* new Set(iterable) and Set.add keep insertion order and drop repeats.
SetAdd(s, x) == IF x \in Range(s) THEN s ELSE Append(s, x)

RECURSIVE SetFromFrom(_, _, _)
SetFromFrom(items, k, s) ==
    IF k > Len(items) THEN s ELSE SetFromFrom(items, k + 1, SetAdd(s, items[k]))

SetFrom(items) == SetFromFrom(items, 1, <<>>)

\* Map.set on a map held as a function.
MapSet(m, key, val) ==
    [x \in DOMAIN m \cup {key} |-> IF x = key THEN val ELSE m[x]]

EmptyMap == [x \in {} |-> x]

\* ------------------------------------------------------------- graph build

\* getFixture: whether registry[name] is there (else it throws).
fixtureFound(reg, n) == n \in DOMAIN reg

\* A loadDeps that never takes a name as loaded already.
alreadyLoadedNever(g, n) == FALSE

\* loadDeps' first line: if (dependencies.has(n)) return;
alreadyLoaded(g, n) == n \in DOMAIN g.dependencies

\* The graph under construction: the dependencies map, the toLoad set, and
\* the error thrown (Ok while none is).
RECURSIVE loadDeps(_, _, _), loadDepsEach(_, _, _, _)
\* loadDeps that returns on a name the registry lacks instead of throwing.
loadDepsSkipMissing(reg, n, g) ==
    IF g.err # Ok THEN g
    ELSE IF alreadyLoaded(g, n) THEN g
    ELSE IF ~fixtureFound(reg, n) THEN g
    ELSE LET d == reg[n]
         IN  loadDepsEach(reg, d, 1,
                 [g EXCEPT !.dependencies = MapSet(@, n, d)])

loadDeps(reg, n, g) ==
    IF g.err # Ok THEN g
    ELSE IF alreadyLoaded(g, n) THEN g
    ELSE IF ~fixtureFound(reg, n) THEN [g EXCEPT !.err = MissingFixture(n)]
    ELSE LET d == reg[n]
         IN  loadDepsEach(reg, d, 1,
                 [g EXCEPT !.dependencies = MapSet(@, n, d)])

\* d.forEach((dep) => { toLoad.add(dep); loadDeps(dep); })
loadDepsEach(reg, d, k, g) ==
    IF k > Len(d) \/ g.err # Ok THEN g
    ELSE loadDepsEach(reg, d, k + 1,
             loadDeps(reg, d[k], [g EXCEPT !.toLoad = SetAdd(@, d[k])]))

\* for (const name of requested) loadDeps(name)
RECURSIVE buildGraphFrom(_, _, _, _)
buildGraphFrom(reg, req, k, g) ==
    IF k > Len(req) \/ g.err # Ok THEN g
    ELSE buildGraphFrom(reg, req, k + 1, loadDeps(reg, req[k], g))

buildGraph(reg, req) ==
    buildGraphFrom(reg, req, 1,
        [dependencies |-> EmptyMap, toLoad |-> SetFrom(req), err |-> Ok])

\* -------------------------------------------------------------------- sort

\* visitedHas, with the check left out.
visitedHasNever(s, name) == FALSE

\* if (visited.has(name)) return;
visitedHas(s, name) == name \in s.visited

\* if (visiting.has(name)) throw ...
visitingHas(s, name) == name \in s.visiting

\* place, putting the name at the front (sorted.unshift(name)).
placeFront(s, name) ==
    [s EXCEPT !.visiting = @ \ {name},
              !.visited = @ \cup {name},
              !.sorted = <<name>> \o @]

\* visiting.delete(name); visited.add(name); sorted.push(name);
place(s, name) ==
    [s EXCEPT !.visiting = @ \ {name},
              !.visited = @ \cup {name},
              !.sorted = Append(@, name)]

\* const deps = dependencies.get(name); if (deps) ...
depsOf(dependencies, name) ==
    IF name \in DOMAIN dependencies THEN dependencies[name] ELSE <<>>

RECURSIVE visit(_, _, _), visitEach(_, _, _, _)
\* visit with two colours only: the node is marked visited on entry, so a
\* node reached again from below itself is taken for done.
visitTwoColour(dependencies, name, s) ==
    IF s.err # Ok THEN s
    ELSE IF visitedHas(s, name) THEN s
    ELSE LET s1 == visitEach(dependencies, depsOf(dependencies, name), 1,
                       [s EXCEPT !.visited = @ \cup {name}])
         IN  IF s1.err # Ok THEN s1
             ELSE [s1 EXCEPT !.sorted = Append(@, name)]

visit(dependencies, name, s) ==
    IF s.err # Ok THEN s
    ELSE IF visitedHas(s, name) THEN s
    ELSE IF visitingHas(s, name)
         THEN [s EXCEPT !.err = CircularDependency(name)]
    ELSE LET s1 == visitEach(dependencies, depsOf(dependencies, name), 1,
                       [s EXCEPT !.visiting = @ \cup {name}])
         IN  IF s1.err # Ok THEN s1 ELSE place(s1, name)

\* for (const dep of deps) visit(dep)
visitEach(dependencies, d, k, s) ==
    IF k > Len(d) \/ s.err # Ok THEN s
    ELSE visitEach(dependencies, d, k + 1, visit(dependencies, d[k], s))

\* sortFixtures, going through the fixtures from the last to the first.
sortFixturesReversed(fixtures, dependencies) ==
    LET s == visitEach(dependencies, Reverse(fixtures), 1,
                 [sorted |-> <<>>, visited |-> {}, visiting |-> {},
                  err |-> Ok])
    IN  [sorted |-> s.sorted, err |-> s.err]

\* sortFixtures(fixtures, dependencies): [sorted, err]
sortFixtures(fixtures, dependencies) ==
    LET s == visitEach(dependencies, fixtures, 1,
                 [sorted |-> <<>>, visited |-> {}, visiting |-> {},
                  err |-> Ok])
    IN  [sorted |-> s.sorted, err |-> s.err]

\* The synchronous head of setup(): build the graph, then sort it.
\* [sorted, err]: the first error thrown, or the order to set up in.
plan(reg, req) ==
    LET g == buildGraph(reg, req)
    IN  IF g.err # Ok THEN [sorted |-> <<>>, err |-> g.err]
        ELSE sortFixtures(g.toLoad, g.dependencies)


\* --------------------------------------------------------------- lifecycle

\* The FixtureResult of fixture n's setup in the pass started by call p:
\* its value and its cleanup, each told apart by fixture and pass.
Value(n, p) == [name |-> n, pass |-> p]

Handle(n, p) == [name |-> n, pass |-> p]

NoCall == [op |-> "none", ok |-> TRUE]

NoHandle == Handle(NoName, 0)

\* state.deps = null
NullDeps == [isNull |-> TRUE, vals |-> EmptyMap]

\* state.deps = values
SomeDeps(v) == [isNull |-> FALSE, vals |-> v]

\* No graph build running.
NoGraph == [dependencies |-> EmptyMap, toLoad |-> <<>>]

\* No sort running: const sorted = [], visited and visiting empty.
NoMarks == [sorted |-> <<>>, visited |-> {}, visiting |-> {}]

\* No fixture setup invoked yet in the call.
NoArg == [name |-> NoName, vals |-> EmptyMap]

\* get() not called since the latest call settled.
NoGet == [kind |-> "none", vals |-> EmptyMap]

\* get() threw new Error("Fixtures not initialized").
NotInitialized == [kind |-> "NotInitialized", vals |-> EmptyMap]

\* get() returned the object vals.
Got(vals) == [kind |-> "ok", vals |-> vals]

\* The registries over the names D whose dependency lists hold at most
\* budget entries in all.
RECURSIVE RegistriesOver(_, _)
RegistriesOver(D, budget) ==
    IF D = {} THEN {EmptyMap}
    ELSE LET n == CHOOSE x \in D : TRUE
         IN  UNION {{MapSet(reg, n, d) :
                        reg \in RegistriesOver(D \ {n}, budget - Len(d))} :
                    d \in SeqUpTo(Names, budget)}

\* Every registry over Names: any subset registered, any dependency lists
\* (missing names, self-dependencies, cycles and repeats included) of at
\* most MaxEdges entries in all.
Registries == UNION {RegistriesOver(D, MaxEdges) : D \in SUBSET Names}

Init ==
    /\ registry \in Registries
    /\ requested \in SeqUpTo(Names, MaxReq)
    /\ deps = NullDeps
    /\ cleanups = <<>>
    /\ pc = "idle"
    /\ sorted = <<>>
    /\ values = EmptyMap
    /\ idx = 0
    /\ pending = <<>>
    /\ error = Ok
    /\ calls = 0
    /\ last = NoCall
    /\ prev = NoCall
    /\ lastResult = Ok
    /\ setupLog = <<>>
    /\ cleanupLog = <<>>
    /\ firstFailure = NoHandle
    /\ snapshot = <<>>
    /\ got = NoGet
    /\ lastArg = NoArg
    /\ stack = <<>>
    /\ graph = NoGraph
    /\ marks = NoMarks

\* A call starts.
Begin ==
    /\ calls' = calls + 1
    /\ snapshot' = cleanups
    /\ got' = NoGet
    /\ lastArg' = NoArg

\* A call settles: the caller sees res, the call's locals are gone.
Settle(op, res) ==
    /\ last' = [op |-> op, ok |-> (res = Ok)]
    /\ prev' = last
    /\ lastResult' = res
    /\ pc' = "idle"
    /\ sorted' = <<>>
    /\ values' = EmptyMap
    /\ idx' = 0
    /\ pending' = <<>>
    /\ error' = Ok

\* rollbackOrder, without the reverse().
rollbackOrderKept(c) == c

\* for (const cleanup of [...state.cleanups].reverse())
rollbackOrder(c) == Reverse(c)

\* teardownOrder, without the reverse().
teardownOrderKept(c) == c

\* for (const cleanup of state.cleanups.reverse()): reverses in place.
teardownOrder(c) == Reverse(c)

\* rollbackAwaitResolves, without the .catch(() => {}).
rollbackAwaitRejects(ok) == ok

\* await cleanup().catch(() => {}) in the rollback: whether the awaited
\* promise resolves, given whether the cleanup's own promise did.
rollbackAwaitResolves(ok) == TRUE

\* teardownAwaitResolves, without the .catch(() => {}).
teardownAwaitRejects(ok) == ok

\* await cleanup().catch(() => {}) in teardown, likewise.
teardownAwaitResolves(ok) == TRUE

\* rollbackCleanups, with the assignment left out.
rollbackCleanupsKept(c) == c

\* The catch block's state.cleanups = []
rollbackCleanups(c) == <<>>

\* rollbackDeps, with the assignment left out.
rollbackDepsKept(d) == d

\* The catch block's state.deps = null
rollbackDeps(d) == NullDeps

\* teardownDeps, with the assignment left out.
teardownDepsKept(d) == d

\* teardown's state.deps = null
teardownDeps(d) == NullDeps

\* teardownCleanups, with the assignment left out.
teardownCleanupsKept(c) == c

\* teardown's state.cleanups = []
teardownCleanups(c) == <<>>

\* setupCleanups, with the assignment left out.
setupCleanupsKept(c) == c

\* setup's state.cleanups = [] before the loop
setupCleanups(c) == <<>>

\* setupArgument, handing the fixture an empty object.
setupArgumentEmpty(v) == EmptyMap

\* fixture.setup(values): the object the fixture's setup is called with.
setupArgument(v) == v

\* pushCleanup, putting the cleanup at the front (unshift).
pushCleanupFront(c, h) == <<h>> \o c

\* state.cleanups.push(result.cleanup)
pushCleanup(c, h) == Append(c, h)

\* setup(), up to its first await.  A throw of the graph build or of the
\* sort rejects the call before state is touched.
SetupCall ==
    /\ pc = "idle"
    /\ calls < MaxCalls
    /\ Begin
    /\ setupLog' = <<>>
    /\ cleanupLog' = <<>>
    /\ firstFailure' = NoHandle
    /\ UNCHANGED <<registry, requested, tvars>>
    /\ LET p == plan(registry, requested)
       IN  IF p.err # Ok
           THEN /\ Settle("setup", p.err)
                /\ UNCHANGED <<deps, cleanups>>
           ELSE IF p.sorted = <<>>
           THEN /\ cleanups' = setupCleanups(cleanups)
                /\ deps' = SomeDeps(EmptyMap)
                /\ Settle("setup", Ok)
           ELSE /\ cleanups' = setupCleanups(cleanups)
                /\ sorted' = p.sorted
                /\ values' = EmptyMap
                /\ idx' = 1
                /\ pc' = "setup"
                /\ UNCHANGED <<deps, pending, error, last, prev, lastResult>>

\* await fixture.setup(values) resolves: record the value, push the
\* cleanup, go on to the next fixture or finish the pass.
FixtureSetupOk ==
    /\ pc = "setup"
    /\ LET name == sorted[idx]
           v == MapSet(values, name, Value(name, calls))
       IN  /\ setupLog' = Append(setupLog, name)
           /\ lastArg' = [name |-> name, vals |-> setupArgument(values)]
           /\ cleanups' = pushCleanup(cleanups, Handle(name, calls))
           /\ IF idx = Len(sorted)
              THEN /\ deps' = SomeDeps(v)
                   /\ Settle("setup", Ok)
              ELSE /\ values' = v
                   /\ idx' = idx + 1
                   /\ UNCHANGED <<deps, pc, sorted, pending, error, last,
                                  prev, lastResult>>
    /\ UNCHANGED <<registry, requested, cleanupLog, firstFailure, calls,
                   snapshot, got, tvars>>

\* await fixture.setup(values) rejects: the catch block starts the rollback
\* over a reversed copy of state.cleanups.
FixtureSetupFail ==
    /\ pc = "setup"
    /\ LET name == sorted[idx]
           todo == rollbackOrder(cleanups)
       IN  /\ setupLog' = Append(setupLog, name)
           /\ lastArg' = [name |-> name, vals |-> setupArgument(values)]
           /\ IF todo = <<>>
              THEN /\ cleanups' = rollbackCleanups(cleanups)
                   /\ deps' = rollbackDeps(deps)
                   /\ Settle("setup", SetupFailure(name))
              ELSE /\ pending' = todo
                   /\ error' = SetupFailure(name)
                   /\ idx' = 1
                   /\ pc' = "rollback"
                   /\ sorted' = <<>>
                   /\ values' = EmptyMap
                   /\ UNCHANGED <<deps, cleanups, last, prev, lastResult>>
    /\ UNCHANGED <<registry, requested, cleanupLog, firstFailure, calls,
                   snapshot, got, tvars>>

\* One cleanup of the rollback settles (ok: its promise resolved).
RollbackStep(ok) ==
    /\ pc = "rollback"
    /\ LET h == pending[idx]
       IN  /\ cleanupLog' = Append(cleanupLog, h)
           /\ firstFailure' = IF ok \/ firstFailure # NoHandle
                              THEN firstFailure ELSE h
           /\ IF ~(ok \/ rollbackAwaitResolves(ok))
              THEN /\ Settle("setup", CleanupFailure(h.name))
                   /\ UNCHANGED <<deps, cleanups>>
              ELSE IF idx = Len(pending)
              THEN /\ cleanups' = rollbackCleanups(cleanups)
                   /\ deps' = rollbackDeps(deps)
                   /\ Settle("setup", error)
              ELSE /\ idx' = idx + 1
                   /\ UNCHANGED <<deps, cleanups, pc, sorted, values,
                                  pending, error, last, prev, lastResult>>
    /\ UNCHANGED <<registry, requested, setupLog, calls, snapshot, got,
                   lastArg, tvars>>

\* teardown(), up to its first await.
TeardownCall ==
    /\ pc = "idle"
    /\ calls < MaxCalls
    /\ Begin
    /\ cleanupLog' = <<>>
    /\ firstFailure' = NoHandle
    /\ LET todo == teardownOrder(cleanups)
       IN  IF todo = <<>>
           THEN /\ deps' = teardownDeps(deps)
                /\ cleanups' = teardownCleanups(todo)
                /\ Settle("teardown", Ok)
           ELSE /\ cleanups' = todo
                /\ idx' = 1
                /\ pc' = "teardown"
                /\ UNCHANGED <<deps, sorted, values, pending, error,
                               last, prev, lastResult>>
    /\ UNCHANGED <<registry, requested, setupLog, tvars>>

\* One cleanup of teardown settles (ok: its promise resolved).
TeardownStep(ok) ==
    /\ pc = "teardown"
    /\ LET h == cleanups[idx]
       IN  /\ cleanupLog' = Append(cleanupLog, h)
           /\ firstFailure' = IF ok \/ firstFailure # NoHandle
                              THEN firstFailure ELSE h
           /\ IF ~(ok \/ teardownAwaitResolves(ok))
              THEN /\ Settle("teardown", CleanupFailure(h.name))
                   /\ UNCHANGED <<deps, cleanups>>
              ELSE IF idx = Len(cleanups)
              THEN /\ deps' = teardownDeps(deps)
                   /\ cleanups' = teardownCleanups(cleanups)
                   /\ Settle("teardown", Ok)
              ELSE /\ idx' = idx + 1
                   /\ UNCHANGED <<deps, cleanups, pc, sorted, values,
                                  pending, error, last, prev, lastResult>>
    /\ UNCHANGED <<registry, requested, setupLog, calls, snapshot, got,
                   lastArg, tvars>>

\* The value of a property an object lacks.
Undefined == Value(NoName, 0)

\* notInitialized, with the check left out.
notInitializedNever(d) == FALSE

\* get: if (!state.deps) throw ...
notInitialized(d) == d.isNull

\* getView, handing out state.deps itself.
getViewAll(req, vals) == vals

\* Object.fromEntries(requested.map((name) => [name, state.deps![name]]))
getView(req, vals) ==
    [n \in Range(req) |-> IF n \in DOMAIN vals THEN vals[n] ELSE Undefined]

\* get(), called between lifecycle calls.
Get ==
    /\ pc = "idle"
    /\ got' = IF notInitialized(deps) THEN NotInitialized
              ELSE Got(getView(requested, deps.vals))
    /\ UNCHANGED <<registry, requested, deps, cleanups, pc, sorted, values,
                   idx, pending, error, calls, last, prev, lastResult,
                   setupLog, cleanupLog, firstFailure, snapshot, lastArg, tvars>>

Next ==
    \/ SetupCall
    \/ FixtureSetupOk
    \/ FixtureSetupFail
    \/ \E ok \in BOOLEAN : RollbackStep(ok)
    \/ TeardownCall
    \/ \E ok \in BOOLEAN : TeardownStep(ok)

Spec == Init /\ [][Next]_vars

\* The calls above and get(), called between them.
GetNext ==
    \/ Next
    \/ Get

GetSpec == Init /\ [][GetNext]_vars

\* beforeEach(fixtures.setup) / afterEach(fixtures.teardown): a caller that
\* follows every setup(), failed ones too, by a teardown() before its next
\* setup().
PairedSetupCall ==
    /\ last.op # "setup"
    /\ SetupCall

PairedNext ==
    \/ PairedSetupCall
    \/ FixtureSetupOk
    \/ FixtureSetupFail
    \/ \E ok \in BOOLEAN : RollbackStep(ok)
    \/ TeardownCall
    \/ \E ok \in BOOLEAN : TeardownStep(ok)

PairedSpec == Init /\ [][PairedNext]_vars

\* ------------------------------------------- one setup() call, step by step
\* The graph build and the sort taken one loop iteration or call at a time,
\* the recursion of loadDeps and visit held as a stack of frames: the
\* fixture a frame is for, the list its loop runs over, the loop's place.

Frame(n, list) == [name |-> n, list |-> list, k |-> 1]

\* The deepest the recursions go: the outer loop and a frame a name.
StackCap == Cardinality(Names) + 1

\* setup() is called: the graph build starts on the requested list.
SetupBegin ==
    /\ pc = "idle"
    /\ calls = 0
    /\ Begin
    /\ setupLog' = <<>>
    /\ cleanupLog' = <<>>
    /\ firstFailure' = NoHandle
    /\ pc' = "build"
    /\ graph' = [dependencies |-> EmptyMap, toLoad |-> SetFrom(requested)]
    /\ stack' = <<Frame(NoName, requested)>>
    /\ UNCHANGED <<registry, requested, deps, cleanups, sorted, values, idx,
                   pending, error, last, prev, lastResult, marks>>

\* One iteration of the loop on top of the stack, in the graph build: the
\* loop over requested (the bottom frame) or a d.forEach of loadDeps.
BuildStep ==
    /\ pc = "build"
    /\ LET top == stack[Len(stack)]
           rest == SubSeq(stack, 1, Len(stack) - 1)
       IN  IF top.k > Len(top.list)
           THEN IF rest = <<>>
                THEN /\ pc' = "sort"
                     /\ stack' = <<Frame(NoName, graph.toLoad)>>
                     /\ marks' = NoMarks
                     /\ UNCHANGED <<graph, sorted, values, idx, pending,
                                    error, last, prev, lastResult>>
                ELSE /\ stack' = rest
                     /\ UNCHANGED <<graph, marks, pc, sorted, values, idx,
                                    pending, error, last, prev, lastResult>>
           ELSE LET n == top.list[top.k]
                    here == Append(rest, [top EXCEPT !.k = @ + 1])
                    g == IF rest = <<>> THEN graph
                         ELSE [graph EXCEPT !.toLoad = SetAdd(@, n)]
                IN  IF alreadyLoaded(g, n)
                    THEN /\ graph' = g
                         /\ stack' = here
                         /\ UNCHANGED <<marks, pc, sorted, values, idx,
                                        pending, error, last, prev,
                                        lastResult>>
                    ELSE IF ~fixtureFound(registry, n)
                    THEN /\ Settle("setup", MissingFixture(n))
                         /\ stack' = <<>>
                         /\ graph' = NoGraph
                         /\ UNCHANGED marks
                    ELSE /\ Len(here) < StackCap
                         /\ graph' = [g EXCEPT !.dependencies =
                                          MapSet(@, n, registry[n])]
                         /\ stack' = Append(here, Frame(n, registry[n]))
                         /\ UNCHANGED <<marks, pc, sorted, values, idx,
                                        pending, error, last, prev,
                                        lastResult>>
    /\ UNCHANGED <<registry, requested, deps, cleanups, calls, setupLog,
                   cleanupLog, firstFailure, snapshot, got, lastArg>>

\* One iteration of the loop on top of the stack, in the sort: the loop
\* over the fixtures (the bottom frame) or the loop over deps of a visit.
\* When the bottom loop is over, setup() goes on to its first await.
SortStep ==
    /\ pc = "sort"
    /\ LET top == stack[Len(stack)]
           rest == SubSeq(stack, 1, Len(stack) - 1)
       IN  IF top.k > Len(top.list)
           THEN IF rest # <<>>
                THEN /\ marks' = place(marks, top.name)
                     /\ stack' = rest
                     /\ UNCHANGED <<graph, deps, cleanups, pc,
                                    sorted, values, idx, pending, error,
                                    last, prev, lastResult>>
                ELSE /\ stack' = <<>>
                     /\ graph' = NoGraph
                     /\ marks' = NoMarks
                     /\ cleanups' = setupCleanups(cleanups)
                     /\ IF marks.sorted = <<>>
                        THEN /\ deps' = SomeDeps(EmptyMap)
                             /\ Settle("setup", Ok)
                        ELSE /\ sorted' = marks.sorted
                             /\ values' = EmptyMap
                             /\ idx' = 1
                             /\ pc' = "setup"
                             /\ UNCHANGED <<deps, pending, error, last,
                                            prev, lastResult>>
           ELSE LET n == top.list[top.k]
                    here == Append(rest, [top EXCEPT !.k = @ + 1])
                IN  IF visitedHas(marks, n)
                    THEN /\ stack' = here
                         /\ UNCHANGED <<graph, marks, deps, cleanups, pc, sorted, values, idx,
                                        pending, error, last, prev,
                                        lastResult>>
                    ELSE IF visitingHas(marks, n)
                    THEN /\ Settle("setup", CircularDependency(n))
                         /\ stack' = <<>>
                         /\ graph' = NoGraph
                         /\ marks' = NoMarks
                         /\ UNCHANGED <<deps, cleanups>>
                    ELSE /\ Len(here) < StackCap
                         /\ marks' = [marks EXCEPT !.visiting = @ \cup {n}]
                         /\ stack' = Append(here,
                                Frame(n, depsOf(graph.dependencies, n)))
                         /\ UNCHANGED <<graph, deps, cleanups,
                                        pc, sorted, values, idx, pending,
                                        error, last, prev, lastResult>>
    /\ UNCHANGED <<registry, requested, calls, setupLog, cleanupLog,
                   firstFailure, snapshot, got, lastArg>>

StepNext ==
    \/ SetupBegin
    \/ BuildStep
    \/ SortStep
    \/ FixtureSetupOk
    \/ FixtureSetupFail
    \/ \E ok \in BOOLEAN : RollbackStep(ok)

\* Every step of the call is taken in the end: the synchronous ones run to
\* completion, the awaited fixture operations are taken to settle.
StepSpec == Init /\ [][StepNext]_vars /\ WF_vars(StepNext)


\* ------------------------------------------------- the dependency relation
\* Stated from the registry alone, not from the traversals above.

\* The declared dependencies of n (none for a name the registry lacks).
Succ(n) == IF n \in DOMAIN registry THEN Range(registry[n]) ELSE {}

RECURSIVE Grow(_)
Grow(S) ==
    LET T == S \cup UNION {Succ(n) : n \in S}
    IN  IF T = S THEN S ELSE Grow(T)

\* The transitive closure of the requested names.
Closure == Grow(Range(requested))

\* The names referred to that the registry lacks.
Missing == Closure \ DOMAIN registry

\* n depends on itself, directly or through others.
OnCycle(n) == n \in Grow(Succ(n))

HasCycle == \E n \in Closure : OnCycle(n)

NamesOf(log) == [k \in 1..Len(log) |-> log[k].name]

NoRepeat(s) == \A i, j \in 1..Len(s) : s[i] = s[j] => i = j

SetupSettled == pc = "idle" /\ last.op = "setup"

TeardownSettled == pc = "idle" /\ last.op = "teardown"

\* A fixture's own setup rejected in the settled setup pass.
FixtureFailed == SetupSettled /\ ~last.ok /\ setupLog # <<>>

\* ------------------------------------------------------------------ claims

\* C1: with no cycle, no missing name and no failing fixture setup, the
\* setups invoked by setup() are a topological order of the closure of the
\* requested names: the pass gets through graph build and sort, sets up
\* exactly the closure, and every declared dependency of a fixture has been
\* set up successfully (its value recorded) before the fixture's own setup
\* is invoked.
C1_TopologicalOrder ==
    /\ \A j \in 1..Len(setupLog) : \A d \in Succ(setupLog[j]) :
           \E i \in 1..(j - 1) : setupLog[i] = d
    /\ pc = "setup" => Succ(sorted[idx]) \subseteq DOMAIN values
    /\ (SetupSettled /\ Missing = {} /\ ~HasCycle)
           => lastResult.kind \in {"ok", "SetupFailure"}
    /\ (SetupSettled /\ last.ok) => Range(setupLog) = Closure

C1_Witness ==
    /\ SetupSettled /\ last.ok
    /\ Len(setupLog) = 3
    /\ \E n \in Closure : Succ(n) # {} /\ n \notin Succ(n)

\* C2: a setup pass invokes no fixture's setup twice, and a pass that
\* succeeds invokes the setup of every fixture of the closure exactly once,
\* shared dependencies and repeated requests included.
C2_SetupOnce ==
    /\ NoRepeat(setupLog)
    /\ (SetupSettled /\ last.ok) =>
           \A n \in Closure :
               Cardinality({k \in 1..Len(setupLog) : setupLog[k] = n}) = 1

\* A diamond: a fixture two others of the closure depend on.
C2_Witness ==
    /\ SetupSettled /\ last.ok
    /\ \E n \in Closure :
           Cardinality({m \in Closure \ {n} : n \in Succ(m)}) >= 2

\* C3: a teardown() that follows a successful setup() and in which no
\* cleanup fails invokes the cleanups of that pass in the reverse of the
\* setup order, each once.
C3_ReverseOrder ==
    (TeardownSettled /\ prev = [op |-> "setup", ok |-> TRUE]
        /\ firstFailure = NoHandle)
    => /\ NamesOf(cleanupLog) = Reverse(setupLog)
       /\ \A k \in 1..Len(cleanupLog) : cleanupLog[k].pass = calls - 1

C3_Witness ==
    /\ TeardownSettled /\ prev = [op |-> "setup", ok |-> TRUE]
    /\ firstFailure = NoHandle
    /\ Len(cleanupLog) = 3

\* C4: when the k-th fixture in sorted order fails its setup, the cleanups
\* of fixtures 1..k-1 have each been invoked once, in the order k-1, ..., 1,
\* by the time setup() rejects; the failing fixture's cleanup is not
\* invoked, and no fixture after position k is set up.
C4_Rollback ==
    FixtureFailed =>
        LET k == Len(setupLog)
        IN  /\ setupLog = SubSeq(plan(registry, requested).sorted, 1, k)
            /\ NamesOf(cleanupLog) = Reverse(SubSeq(setupLog, 1, k - 1))
            /\ \A j \in 1..Len(cleanupLog) : cleanupLog[j].pass = calls

C4_Witness == FixtureFailed /\ Len(setupLog) = 3 /\ Len(cleanupLog) = 2

\* C5: a cleanup that fails during the rollback does not stop it: every
\* cleanup appended in the pass is still invoked, and setup() rejects with
\* the error of the fixture setup that failed, never with a cleanup's.
C5_RollbackSuppresses ==
    FixtureFailed =>
        /\ lastResult = SetupFailure(setupLog[Len(setupLog)])
        /\ Len(cleanupLog) = Len(setupLog) - 1
        /\ NoRepeat(cleanupLog)

\* The first cleanup of a rollback rejected and another one followed.
C5_Witness ==
    /\ FixtureFailed
    /\ Len(cleanupLog) >= 2
    /\ firstFailure = cleanupLog[1]

\* C6: when a cleanup fails during teardown(), teardown() rejects, with the
\* first cleanup error in execution order.
C6_TeardownRaises ==
    (TeardownSettled /\ firstFailure # NoHandle)
    => lastResult = CleanupFailure(firstFailure.name)

C8_TeardownStopsAtFailure ==
    (TeardownSettled /\ firstFailure # NoHandle)
    => /\ cleanupLog[Len(cleanupLog)] = firstFailure
       /\ NoRepeat(cleanupLog)

\* C9 as stated: a cycle in the closure makes setup() fail with a
\* circular-dependency error naming a fixture on a cycle, with no fixture
\* setup and no cleanup invoked.
C9_CycleAlwaysDetected ==
    (SetupSettled /\ HasCycle)
    => /\ lastResult.kind = "CircularDependency"
       /\ OnCycle(lastResult.name)
       /\ setupLog = <<>>
       /\ cleanupLog = <<>>

\* C9, amended: the same when no name of the closure is missing from the
\* registry (a missing name is found first, by the graph build).
C9_CycleDetected ==
    (SetupSettled /\ HasCycle /\ Missing = {})
    => /\ lastResult.kind = "CircularDependency"
       /\ lastResult.name \in Closure
       /\ OnCycle(lastResult.name)
       /\ setupLog = <<>>
       /\ cleanupLog = <<>>

\* A cycle through two fixtures, reported.
C9_Witness ==
    /\ SetupSettled /\ Missing = {}
    /\ lastResult.kind = "CircularDependency"
    /\ lastResult.name \notin Succ(lastResult.name)

\* C10: a requested or declared name that the registry lacks makes setup()
\* fail with a missing-fixture error naming such a name, before any fixture
\* setup is invoked.
C10_MissingFixture ==
    (SetupSettled /\ Missing # {})
    => /\ lastResult.kind = "MissingFixture"
       /\ lastResult.name \in Missing
       /\ setupLog = <<>>
       /\ cleanupLog = <<>>

\* The missing name is a declared dependency, not a requested name.
C10_Witness ==
    /\ SetupSettled
    /\ lastResult.kind = "MissingFixture"
    /\ lastResult.name \notin Range(requested)

\* C11: get() throws the not-initialized error exactly when the latest
\* settled lifecycle call is not a successful setup() (none yet, a
\* teardown(), a failed setup()), and returns otherwise.
C11_GetInitialized ==
    got # NoGet =>
        IF last = [op |-> "setup", ok |-> TRUE]
        THEN got.kind = "ok"
        ELSE got = NotInitialized

\* get() throws after a setup() that failed following one that succeeded.
C11_Witness ==
    /\ got = NotInitialized
    /\ last = [op |-> "setup", ok |-> FALSE]
    /\ prev = [op |-> "setup", ok |-> TRUE]

\* C12: what get() returns after a successful setup() has exactly the
\* requested names as keys, each with the value its fixture's setup gave in
\* the latest successful pass; and get() changes no instance state.
C12_GetView ==
    /\ [](got.kind = "ok" =>
            /\ DOMAIN got.vals = Range(requested)
            /\ \A n \in Range(requested) : got.vals[n] = Value(n, calls))
    /\ [][got' \notin {got, NoGet} =>
            UNCHANGED <<deps, cleanups, pc, calls>>]_vars

\* get() after a second successful pass, with a dependency not requested.
C12_Witness ==
    /\ got.kind = "ok"
    /\ prev = [op |-> "setup", ok |-> TRUE]
    /\ Closure # Range(requested)

Cleared == deps = NullDeps /\ cleanups = <<>>

\* C13: when teardown() has finished, whichever cleanups failed, the
\* instance state is cleared: no resolved values, no pending cleanup.
C13_TeardownClears == TeardownSettled => Cleared

\* A teardown with cleanups to run, one of which rejected.
C13_Witness ==
    /\ TeardownSettled
    /\ firstFailure # NoHandle
    /\ Len(snapshot) >= 2

\* C14: when setup() has failed, for whatever reason and after whatever
\* calls, the instance state is cleared, and a teardown() that follows
\* invokes no cleanup.
C14_FailedSetupClears ==
    /\ (SetupSettled /\ ~last.ok) => Cleared
    /\ (TeardownSettled /\ prev = [op |-> "setup", ok |-> FALSE])
           => cleanupLog = <<>>

\* A teardown after a setup that failed at its third fixture.
C14_Witness ==
    /\ TeardownSettled
    /\ prev = [op |-> "setup", ok |-> FALSE]
    /\ Len(setupLog) = 3

\* C15: a teardown() that follows a teardown(), or that is the first call,
\* invokes no cleanup, raises no error and leaves the state cleared.
C15_TeardownIdempotent ==
    (TeardownSettled /\ prev.op \in {"teardown", "none"})
    => /\ cleanupLog = <<>>
       /\ lastResult = Ok
       /\ Cleared

\* setup(), teardown(), teardown(), the setup having set fixtures up.
C15_Witness ==
    /\ TeardownSettled
    /\ prev.op = "teardown"
    /\ calls = 3
    /\ setupLog # <<>>

\* The cleanups of the fixtures in log, of the running or latest call.
HandlesOf(log) == [k \in 1..Len(log) |-> Handle(log[k], calls)]

\* C17 as stated: the mapping a fixture's setup is invoked with holds
\* exactly the fixture's declared dependencies, each with the value its
\* setup produced, and no other fixture's value.
C17_ExactlyDeclared ==
    lastArg # NoArg =>
        /\ DOMAIN lastArg.vals = Succ(lastArg.name)
        /\ \A d \in Succ(lastArg.name) : lastArg.vals[d] = Value(d, calls)

\* C17, amended: the mapping holds every declared dependency of the
\* fixture with the value its setup produced; it is the mapping of all the
\* fixtures set up before it in the pass, declared dependencies or not.
C17_AllSoFar ==
    lastArg # NoArg =>
        /\ Succ(lastArg.name) \subseteq DOMAIN lastArg.vals
        /\ lastArg.name = setupLog[Len(setupLog)]
        /\ DOMAIN lastArg.vals = Range(SubSeq(setupLog, 1, Len(setupLog) - 1))
        /\ \A d \in DOMAIN lastArg.vals : lastArg.vals[d] = Value(d, calls)

\* A fixture with a dependency is invoked with another fixture's value too.
C17_Witness ==
    /\ lastArg # NoArg
    /\ Succ(lastArg.name) # {}
    /\ DOMAIN lastArg.vals # Succ(lastArg.name)

\* C19: while a setup pass is suspended, and when it has succeeded,
\* state.cleanups holds the cleanups of the fixtures set up successfully so
\* far in the pass, one each, in setup order; on success there are as many
\* as the closure has names and state.deps holds every name of the closure.
C19_PendingCleanups ==
    /\ pc = "setup" => cleanups = HandlesOf(setupLog)
    /\ pc = "rollback" =>
           cleanups = HandlesOf(SubSeq(setupLog, 1, Len(setupLog) - 1))
    /\ (SetupSettled /\ last.ok) =>
           /\ cleanups = HandlesOf(setupLog)
           /\ Len(cleanups) = Cardinality(Closure)
           /\ ~deps.isNull
           /\ DOMAIN deps.vals = Closure

\* A pass suspended in its third fixture's setup.
C19_Witness == pc = "setup" /\ Len(cleanups) = 2

\* C20: setup() after a successful setup(), with no teardown() between, runs
\* a whole new pass and drops the first pass's cleanups from the state
\* without invoking them: a setup pass invokes and keeps only cleanups of
\* its own pass, a teardown() invokes only cleanups that were pending when
\* it was called, so the dropped ones are never invoked later.
C20_RepeatedSetupLeaks ==
    /\ \A h \in Range(cleanupLog) \cup Range(cleanups) :
           h.pass = calls \/ h \in Range(snapshot)
    /\ \A h \in Range(cleanupLog) \cup Range(cleanups) :
           \A g \in Range(cleanupLog) \cup Range(cleanups) : h.pass = g.pass
    /\ (pc \in {"setup", "rollback"} \/
        (SetupSettled /\ lastResult.kind \in {"ok", "SetupFailure"})) =>
           \A h \in Range(cleanupLog) \cup Range(cleanups) : h.pass = calls
    /\ (pc = "teardown" \/ TeardownSettled) =>
           Range(cleanupLog) \cup Range(cleanups) \subseteq Range(snapshot)
    /\ (SetupSettled /\ prev = [op |-> "setup", ok |-> TRUE]) =>
           /\ lastResult.kind \in {"ok", "SetupFailure"}
           /\ Len(snapshot) = Cardinality(Closure)
           /\ \A h \in Range(snapshot) : h.pass < calls
           /\ last.ok => Range(setupLog) = Closure

\* setup(), setup(), teardown(): the teardown has run the second pass's
\* cleanups, the first pass's are lost.
C20_Witness ==
    /\ TeardownSettled
    /\ calls = 3
    /\ prev = [op |-> "setup", ok |-> TRUE]
    /\ cleanupLog # <<>>
    /\ \A h \in Range(cleanupLog) : h.pass = 2

\* The depth-first post-order of the registry from the requested list: the
\* requested names in the order given, the dependencies of each fixture in
\* the order declared and before it, names already placed skipped.
RECURSIVE PostOrderFrom(_, _, _)
PostOrderFrom(list, k, placed) ==
    IF k > Len(list) THEN placed
    ELSE IF list[k] \in Range(placed)
         THEN PostOrderFrom(list, k + 1, placed)
    ELSE PostOrderFrom(list, k + 1,
             Append(PostOrderFrom(registry[list[k]], 1, placed), list[k]))

PostOrder == PostOrderFrom(requested, 1, <<>>)

\* shared (a) with no dependency, foo (b) and bar (c) depending on it.
Diamond == [a |-> <<>>, b |-> <<"a">>, c |-> <<"a">>]

\* C18: the setup order is the depth-first post-order fixed by the
\* requested list and the declared dependency lists, so the same for every
\* instance over the same inputs: shared, foo, bar for the diamond
\* requested as [foo, bar].
C18_PostOrder ==
    /\ setupLog # <<>> => setupLog = SubSeq(PostOrder, 1, Len(setupLog))
    /\ pc = "setup" => sorted = PostOrder
    /\ (SetupSettled /\ last.ok) => setupLog = PostOrder
    /\ (SetupSettled /\ last.ok /\ registry = Diamond
            /\ requested = <<"b", "c">>)
           => setupLog = <<"a", "b", "c">>

\* The diamond, requested as [foo, bar], set up.
C18_Witness ==
    /\ SetupSettled /\ last.ok
    /\ registry = Diamond
    /\ requested = <<"b", "c">>

\* The call taken step by step plans what plan does in one go.
StepsAgreeWithPlan ==
    /\ pc = "setup" /\ setupLog = <<>> =>
           sorted = plan(registry, requested).sorted
    /\ (SetupSettled /\ setupLog = <<>>) =>
           lastResult = plan(registry, requested).err
    /\ Len(stack) <= StackCap

\* C16: setup() terminates on every registry, cyclic ones included, the
\* fixture operations it awaits settling: the graph build and the sort come
\* to an end, and the call settles, resolved or rejected.
C16_SetupTerminates == (pc = "build") ~> SetupSettled

\* A call on a registry with a cycle has settled.
C16_Witness == SetupSettled /\ HasCycle /\ Missing = {}

\* The call before the one running or latest settled.
CallBefore == IF pc = "idle" THEN prev ELSE last

\* The cleanups of the fixtures of log, set up in pass p.
CleanupsOf(log, p) == {Handle(log[k], p) : k \in 1..Len(log)}

====
